---- MODULE Spec2Model ----
(***************************************************************************)
(* binexpect: binary transport and interactive prompting on top of a       *)
(* pexpect connection (src/binexpect/mixins.py).                           *)
(*                                                                         *)
(* The state is one connection: the attributes of its terminal, the stack  *)
(* of saved modes kept by changemode/restoremode, the line terminator the  *)
(* mixin patches into the connection, the echo setting, the child and the  *)
(* controlling process, and a record of what the last operation did (the   *)
(* calls it made, the bytes it put on the link, the lines it wrote).       *)
(***************************************************************************)
EXTENDS Integers, Sequences, FiniteSets, TLC

\* ------------------------------------------------------------------ bounds
MaxLen == 2         \* longest payload handed to sendbin / sendbinline
MaxDepth == 2       \* deepest mode stack the script builds

\* ------------------------------------------------------- program constants
SYN == 22           \* 0x16, the escape marker written by escape()
ONLCR == 4          \* termios.ONLCR, the output flag tested by setmode
NoStatus == -1      \* stands for None in signalstatus / exitstatus

\* Bytes used as payloads: the marker itself, the terminal's special
\* characters (INTR ^C, NL, CR, ERASE) and '=' (61), the context byte of
\* test.py.
Bytes == {3, 10, 13, 22, 61, 127}

RECURSIVE SeqsUpTo(_)
SeqsUpTo(n) ==
    IF n = 0 THEN {<<>>}
    ELSE LET shorter == SeqsUpTo(n - 1)
         IN  shorter \cup {Append(s, b) : s \in {t \in shorter : Len(t) = n - 1}, b \in Bytes}

Payloads == SeqsUpTo(MaxLen)

\* pexpect.spawn.crlf and its last element
CRLF == <<13, 10>>
LastOf(s) == <<s[Len(s)]>>

\* ---------------------------------------------------------------- termios
\* The seven groups of the list returned by termios.tcgetattr (TLIST).  The
\* output flags are a three bit field: OPOST = 1, OLCUC = 2, ONLCR = 4.
CookedMode(oflag) ==
    [iflag |-> 256, oflag |-> oflag, cflag |-> 191, lflag |-> 3,
     ispeed |-> 15, ospeed |-> 15, cc |-> <<3, 28, 127, 21, 4>>]

\* x & ONLCR, x | ONLCR and x & ~ONLCR on the three bit field
HasONLCR(x) == (x \div ONLCR) % 2 = 1
OrONLCR(x) == IF HasONLCR(x) THEN x ELSE x + ONLCR
AndNotONLCRMasksLow(x) == IF HasONLCR(x) THEN 0 ELSE x
AndNotONLCR(x) == IF HasONLCR(x) THEN x - ONLCR ELSE x

\* An entry of self.oldmodes: a saved mode, or None
NoneEntry == [none |-> TRUE, mode |-> CookedMode(0)]
Saved(m) == [none |-> FALSE, mode |-> m]

VARIABLES
    binmixin,     \* isinstance(self, BinMixin)
    term,         \* the attributes of the connection's terminal
    crlf,         \* self.crlf, the connection's line terminator
    hasoldmodes,  \* hasattr(self, "oldmodes")
    oldmodes,     \* self.oldmodes
    echo,         \* what getecho() returns
    child,        \* [alive, signalstatus, exitstatus] of the child
    ctl,          \* the controlling process: running, killed or exited
    pc,           \* where the script is: "script" or inside "interact"
    frame,        \* the locals of the prompt call that is suspended in interact
    base,         \* the terminal attributes when the mode stack was last empty
    data,         \* the payload the script hands to sendbin / sendbinline
    cli,          \* the Target object of binexpect.cli and what target() made
    last          \* what the last operation did

vars == <<binmixin, term, crlf, hasoldmodes, oldmodes, echo, child, ctl,
          pc, frame, base, data, cli, last>>

\* ------------------------------------------------------------------ escape
\* (mutant) the marker taken for DLE, 0x10, as the comment in escape() tells
EscapeStepDLE(escaped, i, c) ==
    [escaped EXCEPT ![2 * (i - 1) + 1] = 16, ![2 * (i - 1) + 2] = c]

\* The loop of escape(): escaped[i*2] = 0x16; escaped[i*2+1] = c
EscapeStep(escaped, i, c) ==
    [escaped EXCEPT ![2 * (i - 1) + 1] = SYN, ![2 * (i - 1) + 2] = c]

\* (mutant) a byte equal to the marker is not escaped again
RECURSIVE EscapeLoopSkipsMarker(_, _, _)
EscapeLoopSkipsMarker(escaped, s, i) ==
    IF i > Len(s) THEN escaped
    ELSE IF s[i] = SYN
         THEN EscapeLoopSkipsMarker([escaped EXCEPT ![2 * (i - 1) + 1] = SYN], s, i + 1)
         ELSE EscapeLoopSkipsMarker(
                  [escaped EXCEPT ![2 * (i - 1) + 1] = SYN, ![2 * (i - 1) + 2] = s[i]],
                  s, i + 1)

RECURSIVE EscapeLoop(_, _, _)
EscapeLoop(escaped, s, i) ==
    IF i > Len(s) THEN escaped
    ELSE EscapeLoop(EscapeStep(escaped, i, s[i]), s, i + 1)

\* escape(s): bytearray(len(s) * 2), filled by the loop
Escape(s) == EscapeLoop([k \in 1..(2 * Len(s)) |-> 0], s, 1)

\* ------------------------------------------------- the terminal and the child
\* The special characters of the terminal's line discipline (cooked mode)
TtyCC == [VINTR |-> 3, VERASE |-> 127, VLNEXT |-> 22, NL |-> 10, CR |-> 13]

Front(s) == IF s = <<>> THEN s ELSE SubSeq(s, 1, Len(s) - 1)

\* The line discipline reads the bytes of the link one by one: the byte after
\* VLNEXT is taken literally, VINTR signals the child, VERASE rubs out, CR
\* and NL end the line.  The child (cat) writes every line it is given; with
\* echo on the terminal also echoes the line.
RECURSIVE NTtyLoop(_, _, _, _, _, _)
NTtyLoop(wire, i, lnext, line, out, echoOn) ==
    IF i > Len(wire) THEN [out |-> out, intr |-> FALSE]
    ELSE LET c == wire[i]
         IN  IF lnext THEN NTtyLoop(wire, i + 1, FALSE, Append(line, c), out, echoOn)
             ELSE IF c = TtyCC.VLNEXT THEN NTtyLoop(wire, i + 1, TRUE, line, out, echoOn)
             ELSE IF c = TtyCC.VINTR THEN [out |-> out, intr |-> TRUE]
             ELSE IF c = TtyCC.VERASE
                  THEN NTtyLoop(wire, i + 1, FALSE, Front(line), out, echoOn)
             ELSE IF c \in {TtyCC.CR, TtyCC.NL}
                  THEN LET full == Append(line, TtyCC.NL)
                       IN  NTtyLoop(wire, i + 1, FALSE, <<>>,
                                    out \o (IF echoOn THEN full ELSE <<>>) \o full, echoOn)
             ELSE NTtyLoop(wire, i + 1, FALSE, Append(line, c), out, echoOn)

\* Output processing: with OPOST and ONLCR a written NL becomes CR NL
RECURSIVE OutProc(_, _)
OutProc(oflag, bytes) ==
    IF bytes = <<>> THEN <<>>
    ELSE (IF bytes[1] = TtyCC.NL /\ HasONLCR(oflag) /\ oflag % 2 = 1
          THEN <<TtyCC.CR, TtyCC.NL>> ELSE <<bytes[1]>>)
         \o OutProc(oflag, Tail(bytes))

\* What the controller can read back, and whether the child was interrupted
Tty(wire) ==
    LET r == NTtyLoop(wire, 1, FALSE, <<>>, <<>>, echo)
    IN  [rx |-> OutProc(term.oflag, r.out), intr |-> r.intr]

\* ------------------------------------------------------- the operation record
Pre == [term |-> term, crlf |-> crlf, hasoldmodes |-> hasoldmodes,
        oldmodes |-> oldmodes, echo |-> echo]

Blank(op) ==
    [op |-> op, arg |-> <<>>, calls |-> <<>>, wire |-> <<>>, ret |-> 0,
     rx |-> <<>>, intr |-> FALSE, pushed |-> NoneEntry, live |-> CookedMode(0),
     popped |-> NoneEntry, raised |-> FALSE, wrote |-> <<>>, out |-> <<>>,
     acts |-> <<>>, check |-> "none", exc |-> "none", result |-> "none",
     origin |-> [follows |-> FALSE, term |-> term], saw |-> child,
     entered |-> 0,
     pre |-> Pre]

Running == ctl.state = "running"
Alive == [alive |-> TRUE, signalstatus |-> NoStatus, exitstatus |-> NoStatus]
Killed(sig) == [alive |-> FALSE, signalstatus |-> sig, exitstatus |-> NoStatus]

\* ---------------------------------------------------------- send primitives
\* send(b): the bytes go on the link, the count written is returned
Send(b) == [call |-> [prim |-> "send", arg |-> b], wire |-> b, ret |-> Len(b)]

\* sendline(b): the bytes and the connection's line terminator go on the link
SendLine(b) ==
    [call |-> [prim |-> "sendline", arg |-> b], wire |-> b \o crlf,
     ret |-> Len(b) + Len(crlf)]

\* What the link, the terminal and the child make of one primitive call
Transmit(op, s, r) ==
    LET t == Tty(r.wire)
    IN  /\ last' = [Blank(op) EXCEPT !.arg = s, !.calls = <<r.call>>,
                        !.wire = r.wire, !.ret = r.ret, !.rx = t.rx, !.intr = t.intr]
        /\ child' = IF t.intr /\ child.alive THEN Killed(2) ELSE child

\* (mutant) the payload sent as it is
SendBinCallRaw(s) == Send(s)

\* sendbin(s): return self.send(self.escape(s))
SendBinCall(s) == Send(Escape(s))

SendBin ==
    /\ pc = "script" /\ Running /\ binmixin
    /\ Transmit("sendbin", data, SendBinCall(data))
    /\ UNCHANGED <<binmixin, term, crlf, hasoldmodes, oldmodes, echo, ctl,
                   pc, frame, base, data, cli>>

\* (mutant) the line terminator escaped with the payload
SendBinLineCallEscapesCrlf(s) ==
    [call |-> [prim |-> "send", arg |-> Escape(s \o crlf)],
     wire |-> Escape(s \o crlf), ret |-> 2 * Len(s \o crlf)]

\* sendbinline(s): return self.sendline(self.escape(s))
SendBinLineCall(s) == SendLine(Escape(s))

SendBinLine ==
    /\ pc = "script" /\ Running /\ binmixin
    /\ Transmit("sendbinline", data, SendBinLineCall(data))
    /\ UNCHANGED <<binmixin, term, crlf, hasoldmodes, oldmodes, echo, ctl,
                   pc, frame, base, data, cli>>

\* target.setecho(b), as the script of test.py calls it
SetEcho ==
    /\ pc = "script" /\ Running
    /\ \E b \in BOOLEAN : echo' = b
    /\ last' = Blank("setecho")
    /\ UNCHANGED <<binmixin, term, crlf, hasoldmodes, oldmodes, child, ctl,
                   pc, frame, base, data, cli>>

\* ------------------------------------------------------------- the mode stack
\* setmode(fd, when, mode): patch self.crlf; tcsetattr is called in the else
\* branch only, so a mode with ONLCR set is never written to the terminal
SetMode(t, mode) ==
    IF HasONLCR(mode.oflag)
    THEN [crlf |-> CRLF, term |-> t, wrote |-> <<>>]
    ELSE [crlf |-> LastOf(CRLF), term |-> mode, wrote |-> <<mode>>]

\* What the body of a "with self.changemode() as mode" block does to mode
Edits == {"keep", "nlcr", "nonlcr", "opost"}

EditWholeGroup(e, mode) ==
    CASE e = "nlcr"   -> [mode EXCEPT !.oflag = OrONLCR(mode.oflag)]
      [] e = "nonlcr" -> [mode EXCEPT !.oflag = 0]
      [] e = "opost"  -> [mode EXCEPT !.oflag = IF @ % 2 = 1 THEN @ - 1 ELSE @ + 1]
      [] OTHER        -> mode

Edit(e, mode) ==
    CASE e = "nlcr"   -> [mode EXCEPT !.oflag = OrONLCR(mode.oflag)]
      [] e = "nonlcr" -> [mode EXCEPT !.oflag = AndNotONLCR(mode.oflag)]
      [] e = "opost"  -> [mode EXCEPT !.oflag = IF @ % 2 = 1 THEN @ - 1 ELSE @ + 1]
      [] OTHER        -> mode

\* (mutant) an unchanged mode takes its entry off the stack
ChangeModeExitDiscards(stack, mode) ==
    IF Saved(mode) = stack[Len(stack)]
    THEN [oldmodes |-> SubSeq(stack, 1, Len(stack) - 1),
          crlf |-> crlf, term |-> term, wrote |-> <<>>]
    ELSE LET r == SetMode(term, mode)
         IN  [oldmodes |-> stack, crlf |-> r.crlf, term |-> r.term, wrote |-> r.wrote]

\* The statements of changemode after the yield
ChangeModeExit(stack, mode) ==
    IF Saved(mode) = stack[Len(stack)]
    THEN [oldmodes |-> [stack EXCEPT ![Len(stack)] = NoneEntry],
          crlf |-> crlf, term |-> term, wrote |-> <<>>]
    ELSE LET r == SetMode(term, mode)
         IN  [oldmodes |-> stack, crlf |-> r.crlf, term |-> r.term, wrote |-> r.wrote]

\* The generator after the body has run: resumed after the yield when the
\* body completed, thrown into at the yield (and so ended) when it raised
ChangeModeAfterBody(stack, mode, raises) ==
    IF raises
    THEN [oldmodes |-> stack, crlf |-> crlf, term |-> term, wrote |-> <<>>]
    ELSE ChangeModeExit(stack, mode)

\* changemode with a body: create the stack, save a copy of the mode read
\* from the terminal, run the body, then the statements after the yield
ChangeMode(e, raises) ==
    LET stack == (IF hasoldmodes THEN oldmodes ELSE <<>>) \o <<Saved(term)>>
        mode  == Edit(e, term)
        r     == ChangeModeAfterBody(stack, mode, raises)
    IN  [oldmodes |-> r.oldmodes, crlf |-> r.crlf, term |-> r.term, wrote |-> r.wrote,
         pushed |-> Saved(term), live |-> mode, raised |-> raises,
         depth |-> Len(stack)]

Depth == IF hasoldmodes THEN Len(oldmodes) ELSE 0

ApplyChangeMode(op, r) ==
    /\ hasoldmodes' = TRUE
    /\ oldmodes' = r.oldmodes
    /\ crlf' = r.crlf
    /\ term' = r.term
    /\ base' = IF Depth = 0 THEN term ELSE base
    /\ last' = [Blank(op) EXCEPT !.pushed = r.pushed, !.live = r.live,
                    !.raised = r.raised, !.wrote = r.wrote,
                    !.entered = r.depth,
                    !.origin = IF last.op = "setnlcr"
                               THEN [follows |-> TRUE, term |-> last.pre.term]
                               ELSE [follows |-> FALSE, term |-> term]]

\* (mutant) the snapshot is pushed before the attributes are read
ChangeModeNoTtyPushes ==
    [oldmodes |-> (IF hasoldmodes THEN oldmodes ELSE <<>>) \o <<Saved(term)>>,
     crlf |-> crlf, term |-> term, wrote |-> <<>>, raised |-> TRUE]

\* changemode() on a connection whose descriptor is closed or no terminal:
\* oldmodes is created if missing, then tcgetattr raises before the push
ChangeModeNoTty ==
    [oldmodes |-> IF hasoldmodes THEN oldmodes ELSE <<>>,
     crlf |-> crlf, term |-> term, wrote |-> <<>>, raised |-> TRUE]

ApplyChangeModeNoTty(op, r) ==
    /\ hasoldmodes' = TRUE
    /\ oldmodes' = r.oldmodes
    /\ crlf' = r.crlf
    /\ term' = r.term
    /\ base' = base
    /\ last' = [Blank(op) EXCEPT !.raised = r.raised, !.wrote = r.wrote,
                    !.exc = "termios.error"]

\* a scoped mode change made by the script on its connection
ScopedModeChange(op, e, raises) ==
    IF cli.nofd
    THEN ApplyChangeModeNoTty(op, ChangeModeNoTty)
    ELSE ApplyChangeMode(op, ChangeMode(e, raises))

\* setnlcr()
SetNlcr ==
    /\ pc = "script" /\ Running /\ binmixin /\ Depth < MaxDepth
    /\ ScopedModeChange("setnlcr", "nlcr", FALSE)
    /\ UNCHANGED <<binmixin, echo, child, ctl, pc, frame, data, cli>>

\* setnonlcr()
SetNoNlcr ==
    /\ pc = "script" /\ Running /\ binmixin /\ Depth < MaxDepth
    /\ ScopedModeChange("setnonlcr", "nonlcr", FALSE)
    /\ UNCHANGED <<binmixin, echo, child, ctl, pc, frame, data, cli>>

\* a with self.changemode() block of the script, whose body may raise
ChangeModeBlock ==
    /\ pc = "script" /\ Running /\ binmixin /\ Depth < MaxDepth
    /\ \E e \in Edits, raises \in BOOLEAN :
           ScopedModeChange("changemode", e, raises)
    /\ UNCHANGED <<binmixin, echo, child, ctl, pc, frame, data, cli>>

\* (mutant) a restore without a snapshot falls back on the terminal the
\* connection started with instead of failing
RestoreModeCallFallsBack ==
    IF Depth = 0
    THEN LET r == SetMode(term, base)
         IN  [oldmodes |-> oldmodes, crlf |-> r.crlf, term |-> r.term,
              wrote |-> r.wrote, popped |-> NoneEntry, raised |-> FALSE]
    ELSE LET mode == oldmodes[Len(oldmodes)]
             rest == SubSeq(oldmodes, 1, Len(oldmodes) - 1)
             r    == SetMode(term, mode.mode)
         IN  IF mode.none
             THEN [oldmodes |-> rest, crlf |-> crlf, term |-> term, wrote |-> <<>>,
                   popped |-> mode, raised |-> FALSE]
             ELSE [oldmodes |-> rest, crlf |-> r.crlf, term |-> r.term,
                   wrote |-> r.wrote, popped |-> mode, raised |-> FALSE]

\* restoremode(): pop, and unless the entry is None hand it to setmode; the
\* pop fails when there is no stack or the stack is empty
RestoreModeCall ==
    IF Depth = 0
    THEN [oldmodes |-> oldmodes, crlf |-> crlf, term |-> term, wrote |-> <<>>,
          popped |-> NoneEntry, raised |-> TRUE]
    ELSE LET mode == oldmodes[Len(oldmodes)]
             rest == SubSeq(oldmodes, 1, Len(oldmodes) - 1)
             r    == SetMode(term, mode.mode)
         IN  IF mode.none
             THEN [oldmodes |-> rest, crlf |-> crlf, term |-> term, wrote |-> <<>>,
                   popped |-> mode, raised |-> FALSE]
             ELSE [oldmodes |-> rest, crlf |-> r.crlf, term |-> r.term,
                   wrote |-> r.wrote, popped |-> mode, raised |-> FALSE]

ApplyRestoreMode(op, r) ==
    /\ oldmodes' = r.oldmodes
    /\ crlf' = r.crlf
    /\ term' = r.term
    /\ last' = [Blank(op) EXCEPT !.popped = r.popped, !.raised = r.raised,
                    !.wrote = r.wrote]

RestoreMode ==
    /\ pc = "script" /\ Running /\ binmixin
    /\ ApplyRestoreMode("restoremode", RestoreModeCall)
    /\ UNCHANGED <<binmixin, hasoldmodes, echo, child, ctl, pc, frame, base, data, cli>>

\* ------------------------------------------------------------------ prompt
\* _check_target(exitwithprogram): report the signal or the exit status of
\* the child and, when asked to, end the controlling process the same way
\* (mutant) os.kill comes before the report
SignalBranchKillsFirst(exitwithprogram) ==
    (IF exitwithprogram
     THEN <<[line |-> "killing", n |-> child.signalstatus],
            [line |-> "os.kill", n |-> child.signalstatus]>>
     ELSE <<>>)
    \o <<[line |-> "signal", n |-> child.signalstatus]>>

\* the signal branch: the report, then "Killing ourself" and os.kill
SignalBranch(exitwithprogram) ==
    <<[line |-> "signal", n |-> child.signalstatus]>>
    \o (IF exitwithprogram
        THEN <<[line |-> "killing", n |-> child.signalstatus],
               [line |-> "os.kill", n |-> child.signalstatus]>>
        ELSE <<>>)

\* (mutant) exit(0) in place of exit(self.exitstatus)
ExitBranchExitsZero(exitwithprogram) ==
    <<[line |-> "exited", n |-> child.exitstatus]>>
    \o (IF exitwithprogram
        THEN <<[line |-> "exiting", n |-> child.exitstatus],
               [line |-> "exit", n |-> 0]>>
        ELSE <<>>)

\* the exit branch: the report, then "Exiting" and exit
ExitBranch(exitwithprogram) ==
    <<[line |-> "exited", n |-> child.exitstatus]>>
    \o (IF exitwithprogram
        THEN <<[line |-> "exiting", n |-> child.exitstatus],
               [line |-> "exit", n |-> child.exitstatus]>>
        ELSE <<>>)

IsLine(a) == a.line \notin {"os.kill", "exit"}

\* What a run of _check_target comes to: the lines written, the end of the
\* controlling process if it ends itself, the value returned
Relay(acts, result) ==
    [acts |-> acts,
     out |-> SelectSeq(acts, IsLine),
     ctl |-> IF acts # <<>> /\ acts[Len(acts)].line = "os.kill"
                 THEN [state |-> "killed", code |-> acts[Len(acts)].n]
             ELSE IF acts # <<>> /\ acts[Len(acts)].line = "exit"
                 THEN [state |-> "exited", code |-> acts[Len(acts)].n]
             ELSE ctl,
     result |-> result]

\* (mutant) the exit status is looked at first
CheckTargetExitFirst(exitwithprogram) ==
    IF child.exitstatus # NoStatus
    THEN Relay(ExitBranch(exitwithprogram), FALSE)
    ELSE IF child.signalstatus # NoStatus
    THEN Relay(SignalBranch(exitwithprogram), FALSE)
    ELSE Relay(<<>>, TRUE)

\* (mutant) the exit branch falls through to the final return True
CheckTargetExitFallsThrough(exitwithprogram) ==
    IF child.signalstatus # NoStatus
    THEN Relay(SignalBranch(exitwithprogram), FALSE)
    ELSE IF child.exitstatus # NoStatus
    THEN Relay(ExitBranch(exitwithprogram), TRUE)
    ELSE Relay(<<>>, TRUE)

CheckTarget(exitwithprogram) ==
    IF child.signalstatus # NoStatus
    THEN Relay(SignalBranch(exitwithprogram), FALSE)
    ELSE IF child.exitstatus # NoStatus
    THEN Relay(ExitBranch(exitwithprogram), FALSE)
    ELSE Relay(<<>>, TRUE)

BoolName(b) == IF b THEN "True" ELSE "False"

EchoArgs == {"None", "True", "False"}
EchoValue(a) == a = "True"

\* The prompt argument of prompt(): None, or the diagnostic of tryexpect
NoText == [fmt |-> "None", pattern |-> "None"]
Diagnostic(pattern) == [fmt |-> "Didn't receive expected %r.", pattern |-> pattern]

\* The arguments of the tryexpect call that called prompt, if one did
NoOuter == [pattern |-> "None", exitwithprogram |-> FALSE]

\* Where the hand-off stands: in interact(), or back from it with the child
\* found dead, or with the script
HandoffStateOf(p, f) ==
    IF p = "interact" THEN "Interactive"
    ELSE IF f.found = "dead" THEN "Terminated"
    ELSE "Scripted"

NoFrame == [oldecho |-> FALSE, echo |-> "None", exitwithprogram |-> FALSE,
            caller |-> "none", prompt |-> NoText, outer |-> NoOuter,
            found |-> "none", came |-> "Scripted",
            entry |-> [term |-> CookedMode(0), depth |-> 0, echo |-> FALSE]]

\* (mutant) setnlcr() is not called before interact()
PromptSetNlcrLate ==
    [ChangeMode("keep", FALSE) EXCEPT !.oldmodes = IF hasoldmodes THEN oldmodes ELSE <<>>]

\* prompt(), up to the call of interact: save the echo setting, apply the
\* requested one, and on a BinMixin connection call setnlcr()
PromptSetNlcr == ChangeMode("nlcr", FALSE)

PromptEnter(caller, outer, text, echoarg, exitwithprogram) ==
    /\ pc = "script" /\ Running
    /\ binmixin => Depth < MaxDepth
    /\ echo' = IF echoarg # "None" THEN EchoValue(echoarg) ELSE echo
    /\ IF binmixin
       THEN ApplyChangeMode(caller, PromptSetNlcr)
       ELSE /\ last' = Blank(caller)
            /\ UNCHANGED <<term, crlf, hasoldmodes, oldmodes, base>>
    /\ frame' = [oldecho |-> echo, echo |-> echoarg, exitwithprogram |-> exitwithprogram,
                 caller |-> caller, prompt |-> text, outer |-> outer,
                 found |-> "pending", came |-> HandoffStateOf(pc, frame),
                 entry |-> [term |-> term, depth |-> Depth, echo |-> echo]]
    /\ pc' = "interact"
    /\ UNCHANGED <<binmixin, child, ctl, data, cli>>

Prompt ==
    \E echoarg \in EchoArgs, exitwithprogram \in BOOLEAN :
        PromptEnter("prompt", NoOuter, NoText, echoarg, exitwithprogram)

\* (mutant) pwned leaves prompt's default in place
PwnedExitWithProgramKept == TRUE

\* pwned(): self.prompt(*args, exitwithprogram=False, **kwargs)
PwnedExitWithProgram == FALSE

Pwned ==
    \E echoarg \in EchoArgs :
        PromptEnter("pwned", NoOuter, NoText, echoarg, PwnedExitWithProgram)

\* While interact() runs the child may die: killed by a signal, exited with
\* a status, or gone with neither recorded
Deaths ==
    {Killed(11), [alive |-> FALSE, signalstatus |-> NoStatus, exitstatus |-> 3],
     [alive |-> FALSE, signalstatus |-> NoStatus, exitstatus |-> NoStatus]}

ChildDies ==
    /\ pc = "interact" /\ child.alive
    /\ \E d \in Deaths : child' = d
    /\ UNCHANGED <<binmixin, term, crlf, hasoldmodes, oldmodes, echo, ctl,
                   pc, frame, base, last, data, cli>>

\* (mutant) the echo setting is left as the session set it
PromptCleanupKeepsEcho ==
    [mode |-> IF binmixin THEN RestoreModeCall
              ELSE [oldmodes |-> oldmodes, crlf |-> crlf, term |-> term, wrote |-> <<>>,
                    popped |-> NoneEntry, raised |-> FALSE],
     echo |-> echo]

\* prompt(), from the return of interact: with the child alive restore the
\* mode and the echo setting
PromptCleanup ==
    LET r == IF binmixin THEN RestoreModeCall
             ELSE [oldmodes |-> oldmodes, crlf |-> crlf, term |-> term, wrote |-> <<>>,
                   popped |-> NoneEntry, raised |-> FALSE]
    IN  [mode |-> r,
         echo |-> IF frame.echo # "None" /\ EchoValue(frame.echo) # frame.oldecho
                  THEN frame.oldecho ELSE echo]

\* tryexpect, after its prompt() call returned: "Continuing script."
Continuing == [line |-> "continuing", n |-> 0]

AfterPrompt(l, returned) ==
    IF frame.caller = "tryexpect" /\ returned
    THEN [l EXCEPT !.out = @ \o <<Continuing>>, !.acts = @ \o <<Continuing>>]
    ELSE l

\* (mutant) the child is taken for alive without asking
PromptFoundAlive == "alive"

\* if self.isalive(): what prompt finds when interact() has returned
PromptFound == IF child.alive THEN "alive" ELSE "dead"

\* (mutant) the mode and the echo setting are restored on the dead path too
PromptTeardownAlways(found) == PromptCleanup

\* The restores of prompt(): made with the child alive, skipped otherwise
PromptTeardown(found) ==
    IF found = "alive"
    THEN PromptCleanup
    ELSE [mode |-> [oldmodes |-> oldmodes, crlf |-> crlf, term |-> term,
                    wrote |-> <<>>, popped |-> NoneEntry, raised |-> FALSE],
          echo |-> echo]

\* interact() returns (the escape character was typed, or the child is gone)
\* and prompt() runs to its end; so does the tryexpect that called it
PromptReturn ==
    /\ pc = "interact"
    /\ LET found == PromptFound
           d     == PromptTeardown(found)
           l     == [Blank(IF found = "alive" THEN "prompt-return" ELSE "prompt-dead")
                        EXCEPT !.popped = d.mode.popped, !.raised = d.mode.raised,
                               !.wrote = d.mode.wrote]
       IN  /\ oldmodes' = d.mode.oldmodes
           /\ crlf' = d.mode.crlf
           /\ term' = d.mode.term
           /\ echo' = d.echo
           /\ frame' = [frame EXCEPT !.found = found]
           /\ IF found = "alive"
              THEN /\ last' = AfterPrompt(l, TRUE)
                   /\ UNCHANGED ctl
              ELSE LET c == CheckTarget(frame.exitwithprogram)
                   IN  /\ last' = AfterPrompt([l EXCEPT !.out = c.out, !.acts = c.acts,
                                                  !.check = BoolName(c.result)],
                                              c.ctl.state = "running")
                       /\ ctl' = c.ctl
    /\ pc' = "script"
    /\ UNCHANGED <<binmixin, hasoldmodes, child, base, data, cli>>

\* -------------------------------------------------------------- tryexpect
Patterns == {"foo", "simple (.*)"}

\* The child dies while the script runs, unseen until the next call
ChildDiesUnseen ==
    /\ pc = "script" /\ Running /\ child.alive
    /\ \E d \in Deaths : child' = d
    /\ UNCHANGED <<binmixin, term, crlf, hasoldmodes, oldmodes, echo, ctl,
                   pc, frame, base, last, data, cli>>

\* expect(pattern, timeout, searchwindowsize) matched: the index it returns
ExpectCall(pattern, index) == [prim |-> "expect", arg |-> pattern, ret |-> index]

\* (mutant) the call's value is dropped
TryExpectReturnNone(call) == 0

\* return self.expect(pattern, timeout, searchwindowsize)
TryExpectReturn(call) == call.ret

TryExpectMatch ==
    /\ pc = "script" /\ Running
    /\ \E pattern \in Patterns, index \in 0..1, exitwithprogram \in BOOLEAN :
           LET call == ExpectCall(pattern, index)
           IN  last' = [Blank("tryexpect") EXCEPT !.calls = <<call>>,
                            !.arg = [pattern |-> pattern,
                                     exitwithprogram |-> exitwithprogram],
                            !.result = "match", !.ret = TryExpectReturn(call)]
    /\ UNCHANGED <<binmixin, term, crlf, hasoldmodes, oldmodes, echo, child, ctl,
                   pc, frame, base, data, cli>>

\* (mutant) the message does not hold the pattern
TryExpectPromptTextBare(pattern) == Diagnostic("None")

\* except pexpect.TIMEOUT: self.prompt("Didn't receive expected %r.\r\n" % pattern)
TryExpectPromptText(pattern) == Diagnostic(pattern)

TryExpectTimeout ==
    \E pattern \in Patterns, exitwithprogram \in BOOLEAN :
        PromptEnter("tryexpect",
                    [pattern |-> pattern, exitwithprogram |-> exitwithprogram],
                    TryExpectPromptText(pattern), "True", TRUE)

\* (mutant) EOF from a live child is swallowed
TryExpectOnEofSwallowsAlive(exitwithprogram) ==
    IF child.alive
    THEN [acts |-> <<>>, out |-> <<>>, ctl |-> ctl, check |-> "none", raises |-> FALSE]
    ELSE LET c == CheckTarget(exitwithprogram)
         IN  [acts |-> c.acts, out |-> c.out, ctl |-> c.ctl,
              check |-> BoolName(c.result), raises |-> c.result]

\* (mutant) the value of _check_target is ignored
TryExpectOnEofAbsorbs(exitwithprogram) ==
    IF child.alive
    THEN [acts |-> <<>>, out |-> <<>>, ctl |-> ctl, check |-> "none", raises |-> TRUE]
    ELSE LET c == CheckTarget(exitwithprogram)
         IN  [acts |-> c.acts, out |-> c.out, ctl |-> c.ctl,
              check |-> BoolName(c.result), raises |-> FALSE]

\* except pexpect.EOF: raise if the child is alive, or if _check_target
\* returns true
TryExpectOnEof(exitwithprogram) ==
    IF child.alive
    THEN [acts |-> <<>>, out |-> <<>>, ctl |-> ctl, check |-> "none", raises |-> TRUE]
    ELSE LET c == CheckTarget(exitwithprogram)
         IN  [acts |-> c.acts, out |-> c.out, ctl |-> c.ctl,
              check |-> BoolName(c.result), raises |-> c.result]

TryExpectEof ==
    /\ pc = "script" /\ Running
    /\ \E pattern \in Patterns, exitwithprogram \in BOOLEAN :
           LET r == TryExpectOnEof(exitwithprogram)
           IN  /\ last' = [Blank("tryexpect") EXCEPT
                               !.calls = <<[prim |-> "expect", arg |-> pattern,
                                            ret |-> "EOF"]>>,
                               !.arg = [pattern |-> pattern,
                                        exitwithprogram |-> exitwithprogram],
                               !.result = "EOF", !.acts = r.acts, !.out = r.out,
                               !.check = r.check, !.raised = r.raises,
                               !.exc = IF r.raises THEN "EOF" ELSE "none"]
               /\ ctl' = r.ctl
    /\ UNCHANGED <<binmixin, term, crlf, hasoldmodes, oldmodes, echo, child,
                   pc, frame, base, data, cli>>

\* ------------------------------------------- _check_target on its own
\* The statuses a connection may hold when _check_target reads them
Statuses ==
    {[alive |-> FALSE, signalstatus |-> s, exitstatus |-> e] :
        s \in {NoStatus, 2, 11}, e \in {NoStatus, 0, 3}}

CheckTargetCall ==
    /\ pc = "script" /\ Running
    /\ \E exitwithprogram \in BOOLEAN :
           LET c == CheckTarget(exitwithprogram)
           IN  /\ last' = [Blank("_check_target") EXCEPT
                               !.arg = [exitwithprogram |-> exitwithprogram],
                               !.out = c.out, !.acts = c.acts,
                               !.check = BoolName(c.result)]
               /\ ctl' = c.ctl
    /\ UNCHANGED <<binmixin, term, crlf, hasoldmodes, oldmodes, echo, child,
                   pc, frame, base, data, cli>>

\* ------------------------------------------------------- binexpect.cli
\* Command lines are lists of words; a command is one string, None included
NoCommand == "None"
Commands == {NoCommand, "cat", "cat -v"}

\* shlex.split on the commands used here
Words(s) == IF s = "cat -v" THEN <<"cat", "-v">> ELSE <<s>>

\* shlex.split(None) reads the words from standard input (up to Python
\* 3.11) or raises (from 3.12); no word at all makes command[0] raise
ShlexSplit(s) == IF s = NoCommand THEN {<<>>, <<"sh", "-i">>} ELSE {Words(s)}

\* The options of the parser that matter to target()
OptionWords == {"--tty", "--gdb", "--nlcr", "--writeback=wb"}

\* Argument lists handed to parse_args, and what sys.argv[1:] may hold
ArgLists ==
    {<<>>, <<"foo">>, <<"cmd", "c", "d">>, <<"--tty">>, <<"--writeback=wb">>,
     <<"--tty", "--writeback=wb">>, <<"--gdb", "--writeback=wb", "cat -v">>,
     <<"--nlcr", "cmd", "--tty">>}
SysArgs == {<<>>, <<"foo">>, <<"cmd", "a", "b">>}
DefaultArgs == {<<>>, <<"a", "b">>}

NoList == [given |-> FALSE, list |-> <<>>]
Given(l) == [given |-> TRUE, list |-> l]

\* parse_args(args): the list parsed is args, or sys.argv[1:] for None
ParsedList(args) == IF args.given THEN args.list ELSE cli.sysargs

\* The optionals in front of the first positional; from the command on,
\* every word goes to the positionals (args is an argparse.REMAINDER)
RECURSIVE Leading(_)
Leading(l) ==
    IF l # <<>> /\ l[1] \in OptionWords THEN <<l[1]>> \o Leading(Tail(l)) ELSE <<>>

Has(l, w) == \E i \in 1..Len(l) : l[i] = w

\* (mutant) the default command is not handed to the parser
SetDefaultsCommandDropped(command) == NoCommand

\* options.set_defaults(command=command)
SetDefaultsCommand(command) == command

\* (mutant) the values are stored as they come
AddDefaultArgsKeeps(values, default_args) == values

\* AddDefaultArgs.__call__: the default args when no value was passed
AddDefaultArgs(values, default_args) ==
    IF values = <<>> /\ default_args # <<>> THEN default_args ELSE values

\* _finish_setup() and parser.parse_args(args)
ParseArgs(args) ==
    LET l    == ParsedList(args)
        opts == Leading(l)
        rest == SubSeq(l, Len(opts) + 1, Len(l))
    IN  [command   |-> IF rest # <<>> THEN rest[1] ELSE SetDefaultsCommand(cli.cmd),
         args      |-> AddDefaultArgs(IF rest # <<>> THEN Tail(rest) ELSE <<>>, cli.dargs),
         tty       |-> Has(opts, "--tty"),
         gdb       |-> Has(opts, "--gdb"),
         nlcr      |-> Has(opts, "--nlcr"),
         writeback |-> IF Has(opts, "--writeback=wb") THEN "wb" ELSE "None"]

NoParsed ==
    [command |-> NoCommand, args |-> <<>>, tty |-> FALSE, gdb |-> FALSE,
     nlcr |-> FALSE, writeback |-> "None"]

NoFile == <<"no file">>

NoCli ==
    [cmd |-> NoCommand, dargs |-> <<>>, sysargs |-> <<>>, newargs |-> NoList,
     parsed |-> NoParsed, done |-> "none", pty |-> FALSE, conn |-> "none",
     file |-> NoFile, gdbterm |-> FALSE, raised |-> FALSE, nofd |-> FALSE]

\* "\x00".join(args)
RECURSIVE JoinNul(_)
JoinNul(args) ==
    IF args = <<>> THEN <<>>
    ELSE IF Len(args) = 1 THEN args
    ELSE <<args[1], "NUL">> \o JoinNul(Tail(args))

\* f.write("%s\x00%s" % (target.ttyname(), "\x00".join(args)))
WritebackContent(ttyname, args) == <<ttyname, "NUL">> \o JoinNul(args)

\* The script sets a Target up, parses and stops there, as test_cli.py does
FinishSetupAndParse ==
    /\ cli.done = "none"
    /\ \E args \in {NoList} \cup {Given(l) : l \in ArgLists} :
           cli' = [cli EXCEPT !.newargs = args, !.parsed = ParseArgs(args),
                              !.done = "parse_args"]
    /\ last' = Blank("parse_args")
    /\ UNCHANGED <<binmixin, term, crlf, hasoldmodes, oldmodes, echo, child, ctl,
                   pc, frame, base, data>>

\* target(args) on the pty branch: ttyspawn, the words of the command, the
\* writeback file, gdb in a terminal; a command without words raises
TargetTty(parsed, command) ==
    IF command = <<>>
    THEN [pty |-> TRUE, conn |-> "none", file |-> NoFile, gdbterm |-> FALSE,
          raised |-> TRUE]
    ELSE [pty |-> TRUE, conn |-> "ttyspawn",
          file |-> IF parsed.writeback # "None"
                   THEN WritebackContent("ttyname", Tail(command)) ELSE NoFile,
          gdbterm |-> parsed.gdb, raised |-> FALSE]

\* target(args) on the other branch: spawn(command=..., args=...); without
\* a command the connection has no child and no file descriptor
TargetSpawn(parsed) ==
    [pty |-> FALSE, conn |-> "spawn", file |-> NoFile, gdbterm |-> FALSE,
     raised |-> FALSE]

\* target(args): parse, make the connection, then setnonlcr() unless --nlcr
Target ==
    /\ cli.done = "none"
    /\ \E args \in {NoList} \cup {Given(l) : l \in ArgLists} :
       LET parsed == ParseArgs(args)
       IN  \E command \in ShlexSplit(parsed.command) :
           LET made == IF parsed.tty \/ parsed.gdb
                       THEN TargetTty(parsed, command)
                       ELSE TargetSpawn(parsed)
               nofd == made.conn = "spawn" /\ parsed.command = NoCommand
               fails == made.raised \/ (~parsed.nlcr /\ nofd)
           IN  /\ cli' = [cli EXCEPT !.newargs = args, !.parsed = parsed,
                             !.done = "target", !.pty = made.pty,
                             !.conn = IF fails THEN "none" ELSE made.conn,
                             !.file = made.file, !.gdbterm = made.gdbterm,
                             !.raised = fails, !.nofd = nofd]
               /\ IF made.raised \/ parsed.nlcr
                  THEN /\ last' = [Blank("target") EXCEPT !.raised = made.raised]
                       /\ UNCHANGED <<term, crlf, hasoldmodes, oldmodes, base>>
                  ELSE IF nofd
                  THEN ApplyChangeModeNoTty("target", ChangeModeNoTty)
                  ELSE ApplyChangeMode("target", ChangeMode("nonlcr", FALSE))
    /\ UNCHANGED <<binmixin, echo, child, ctl, pc, frame, data>>

\* close() of the connection target() returned: the descriptor is closed and
\* forgotten, a child the connection started is hung up on
Close ==
    /\ pc = "script" /\ Running
    /\ cli.done = "target" /\ cli.conn # "none" /\ ~cli.nofd
    /\ cli' = [cli EXCEPT !.nofd = TRUE]
    /\ child' = IF cli.conn = "spawn" THEN Killed(1) ELSE child
    /\ last' = Blank("close")
    /\ UNCHANGED <<binmixin, term, crlf, hasoldmodes, oldmodes, echo, ctl, pc,
                   frame, base, data>>

\* The script goes on with the connection target() returned
TargetSetNlcr == cli.conn # "none" /\ SetNlcr

TargetSetNoNlcr == cli.conn # "none" /\ SetNoNlcr

\* ------------------------------------------------------------ specification
InitConn ==
    /\ binmixin \in BOOLEAN
    /\ term \in {CookedMode(1), CookedMode(5)}
    /\ crlf = CRLF
    /\ hasoldmodes = FALSE
    /\ oldmodes = <<>>
    /\ echo \in BOOLEAN
    /\ child = Alive
    /\ ctl = [state |-> "running", code |-> 0]
    /\ pc = "script"
    /\ frame = NoFrame
    /\ base = term

\* A script that sends nothing
Init ==
    /\ InitConn
    /\ data = <<>>
    /\ cli = NoCli
    /\ last = Blank("init")

\* A script with one payload to send
InitCodec ==
    /\ InitConn
    /\ data \in Payloads
    /\ cli = NoCli
    /\ last = Blank("init")

\* The mode stack and the interactive hand-off
Next ==
    \/ SetNlcr
    \/ SetNoNlcr
    \/ ChangeModeBlock
    \/ RestoreMode
    \/ Prompt
    \/ ChildDies
    \/ PromptReturn

Spec == Init /\ [][Next]_vars

\* Binary transport: the sends, with the mode changes that move the line
\* terminator
NextCodec ==
    \/ SendBin
    \/ SendBinLine
    \/ SetEcho
    \/ SetNlcr
    \/ SetNoNlcr

SpecCodec == InitCodec /\ [][NextCodec]_vars

\* The hand-off between the script and the interactive session: prompt,
\* pwned and tryexpect, on a terminal whose ONLCR the script may have cleared
NextHandoff ==
    \/ SetNoNlcr
    \/ Prompt
    \/ Pwned
    \/ TryExpectMatch
    \/ TryExpectTimeout
    \/ TryExpectEof
    \/ ChildDies
    \/ ChildDiesUnseen
    \/ PromptReturn

SpecHandoff == Init /\ [][NextHandoff]_vars

\* _check_target as a function of the statuses of the connection
InitRelay ==
    /\ binmixin \in BOOLEAN
    /\ term \in {CookedMode(1), CookedMode(5)}
    /\ crlf = CRLF
    /\ hasoldmodes = FALSE
    /\ oldmodes = <<>>
    /\ echo \in BOOLEAN
    /\ child \in Statuses
    /\ ctl = [state |-> "running", code |-> 0]
    /\ pc = "script"
    /\ frame = NoFrame
    /\ base = term
    /\ data = <<>>
    /\ cli = NoCli
    /\ last = Blank("init")

NextRelay == CheckTargetCall

SpecRelay == InitRelay /\ [][NextRelay]_vars

\* A script that sets a Target up: the default command and arguments it
\* gives the constructor, the arguments of the process, and the terminal
\* the connection will find
InitCli ==
    /\ InitConn
    /\ binmixin
    /\ data = <<>>
    /\ \E cmd \in Commands, dargs \in DefaultArgs, sysargs \in SysArgs :
           cli = [NoCli EXCEPT !.cmd = cmd, !.dargs = dargs, !.sysargs = sysargs]
    /\ last = Blank("init")

NextCli ==
    \/ FinishSetupAndParse
    \/ Target
    \/ TargetSetNlcr
    \/ TargetSetNoNlcr
    \/ Close

SpecCli == InitCli /\ [][NextCli]_vars

\* ------------------------------------------------------------------ claims
IsSend == last.op \in {"sendbin", "sendbinline"}
Escaped == last.calls[1].arg

\* C1: for every payload s, escape(s) has length 2*len(s), holds 0x16 at
\* every even index (from 0) and s[i] right after it, so that dropping the
\* first byte of every pair gives back s; the empty payload and payloads
\* holding 0x16 included.
C1_EscapeShape ==
    IsSend =>
        /\ Len(Escaped) = 2 * Len(last.arg)
        /\ \A i \in 1..Len(last.arg) :
               /\ Escaped[2 * i - 1] = SYN
               /\ Escaped[2 * i] = last.arg[i]
        /\ [i \in 1..Len(last.arg) |-> Escaped[2 * i]] = last.arg

C1_Witness ==
    /\ last.op = "sendbin"
    /\ Len(last.arg) >= 2
    /\ \E i \in 1..Len(last.arg) : last.arg[i] = SYN

\* C2: with echo off and ONLCR cleared, sendbinline(s) makes the child put
\* out exactly the line s: the bytes of s, none dropped, altered or taken for
\* a control character, then one NL for every byte of the line terminator; the
\* child is not interrupted.
C2_ByteTransparency ==
    (last.op = "sendbinline" /\ ~echo /\ ~HasONLCR(term.oflag)) =>
        /\ ~last.intr
        /\ child.alive
        /\ last.rx = last.arg \o [i \in 1..Len(crlf) |-> TtyCC.NL]

C2_Witness ==
    /\ last.op = "sendbinline" /\ ~echo /\ ~HasONLCR(term.oflag)
    /\ last.arg = <<TtyCC.VINTR, TtyCC.VLNEXT>>
    /\ last.rx = <<TtyCC.VINTR, TtyCC.VLNEXT, TtyCC.NL>>

\* C3: sendbin(s) calls send once, with escape(s), returns what send
\* returned (the count of the bytes put on the link), and leaves the mode
\* stack and the terminal attributes as they were.
C3_SendBinOnce ==
    last.op = "sendbin" =>
        /\ last.calls = <<[prim |-> "send", arg |-> Escape(last.arg)]>>
        /\ last.wire = Escape(last.arg)
        /\ last.ret = Len(last.wire)
        /\ term = last.pre.term
        /\ hasoldmodes = last.pre.hasoldmodes
        /\ oldmodes = last.pre.oldmodes

C3_Witness ==
    /\ last.op = "sendbin"
    /\ last.arg = <<61, TtyCC.NL>>
    /\ last.wire = <<SYN, 61, SYN, TtyCC.NL>>
    /\ hasoldmodes /\ oldmodes # <<>>

\* C4: sendbinline(s) hands escape(s) to sendline, so the link carries
\* escape(s) and then the line terminator, not escaped; with the empty
\* payload the line terminator alone.
C4_SendBinLine ==
    last.op = "sendbinline" =>
        /\ last.calls = <<[prim |-> "sendline", arg |-> Escape(last.arg)]>>
        /\ last.wire = Escape(last.arg) \o crlf
        /\ last.arg = <<>> => last.wire = crlf

C4_Witness ==
    /\ last.op = "sendbinline"
    /\ last.arg = <<TtyCC.NL>>
    /\ crlf = <<TtyCC.NL>>
    /\ last.wire = <<SYN, TtyCC.NL, TtyCC.NL>>

\* C5: when the restores have emptied the mode stack again, the terminal
\* attributes are those the terminal had before the first scoped change.
C5_RoundTrip ==
    (last.op = "restoremode" /\ ~last.raised /\ Depth = 0) => term = base

\* C6: leaving a changemode scope writes nothing to the terminal when the
\* live snapshot equals the pushed one, and writes the live snapshot with
\* tcsetattr otherwise, whether the change sets or clears ONLCR.
C6_ScopeExitWrites ==
    (last.op \in {"changemode", "setnlcr", "setnonlcr"} /\ ~last.raised) =>
        IF Saved(last.live) = last.pushed
        THEN last.wrote = <<>>
        ELSE last.wrote = <<last.live>> /\ term = last.live

\* C7: the exit step of changemode has run also when the body raised: an
\* unchanged snapshot is discarded (its entry marked None), a changed one
\* that clears ONLCR is on the terminal.
C7_ExitStepOnError ==
    (last.op = "changemode" /\ last.raised) =>
        IF Saved(last.live) = last.pushed
        THEN oldmodes[Len(oldmodes)] = NoneEntry
        ELSE ~HasONLCR(last.live.oflag) => term = last.live

\* C8: a step of setnlcr, setnonlcr or restoremode taken where the line
\* terminator is CRLF exactly when ONLCR is set leads to such a state.
Coherent == (crlf = CRLF) <=> HasONLCR(term.oflag)

C8_CrlfFollowsOnlcr ==
    [][(Coherent /\ last'.op \in {"setnlcr", "setnonlcr", "restoremode"})
           => Coherent']_vars

\* C9: while prompt's interact() runs on a BinMixin connection, ONLCR is set
\* on the terminal.
C9_NlcrWhileInteractive ==
    (pc = "interact" /\ binmixin) => HasONLCR(term.oflag)

\* C10: when prompt returns with the child alive, the echo setting, the
\* ONLCR bit of the terminal and the depth of the mode stack are those of
\* before the call.
C10_PromptTeardown ==
    last.op = "prompt-return" =>
        /\ echo = frame.entry.echo
        /\ HasONLCR(term.oflag) = HasONLCR(frame.entry.term.oflag)
        /\ Depth = frame.entry.depth

C10_Witness ==
    /\ last.op = "prompt-return" /\ binmixin
    /\ frame.echo = "False" /\ frame.entry.echo
    /\ ~HasONLCR(frame.entry.term.oflag)
    /\ frame.entry.depth = 1

\* ---------------------------------------------------- the status relay
Known(c) == ~c.alive /\ (c.signalstatus # NoStatus \/ c.exitstatus # NoStatus)
Unknown(c) == ~c.alive /\ c.signalstatus = NoStatus /\ c.exitstatus = NoStatus

\* The acts of a relay of the child's death: the report naming the signal
\* or the exit status comes first; with exitwithprogram the controlling
\* process then ends the same way, after the report, else it goes on
Relayed(c, acts, exitwithprogram) ==
    LET bysig == c.signalstatus # NoStatus
        n == IF bysig THEN c.signalstatus ELSE c.exitstatus
    IN  /\ acts # <<>>
        /\ acts[1] = [line |-> IF bysig THEN "signal" ELSE "exited", n |-> n]
        /\ IF exitwithprogram
           THEN /\ Len(acts) > 1
                /\ acts[Len(acts)] = [line |-> IF bysig THEN "os.kill" ELSE "exit", n |-> n]
                /\ \A i \in 1..(Len(acts) - 1) : IsLine(acts[i])
                /\ ctl = [state |-> IF bysig THEN "killed" ELSE "exited", code |-> n]
           ELSE /\ \A i \in 1..Len(acts) : IsLine(acts[i])
                /\ Running

PromptDone == last.op \in {"prompt-return", "prompt-dead"}

C12_PwnedNeverMirrors ==
    (PromptDone /\ frame.caller = "pwned") =>
        /\ Running
        /\ pc = "script"
        /\ ~last.raised
        /\ \A i \in 1..Len(last.acts) : IsLine(last.acts[i])

C12_Witness ==
    /\ PromptDone /\ frame.caller = "pwned"
    /\ last.saw.signalstatus = 11
    /\ last.out = <<[line |-> "signal", n |-> 11]>>

\* C13 as stated: after a timeout tryexpect calls prompt and then returns to
\* its caller, no exception escaping, whatever happened to the child during
\* the session
C13_TimeoutAlwaysReturns ==
    (PromptDone /\ frame.caller = "tryexpect") =>
        /\ Running
        /\ pc = "script"
        /\ ~last.raised

\* C13: after a timeout tryexpect calls prompt with the message that holds
\* the pattern, and prompt's default exitwithprogram; it then writes
\* "Continuing script." and returns to its caller, unless the child died
\* with a signal or an exit status during the session: then the controlling
\* process has ended the same way
C13_TimeoutPrompts ==
    (PromptDone /\ frame.caller = "tryexpect") =>
        /\ frame.prompt = Diagnostic(frame.outer.pattern)
        /\ frame.exitwithprogram
        /\ ~last.raised
        /\ IF Known(last.saw)
           THEN Relayed(last.saw, last.acts, TRUE)
           ELSE /\ Running
                /\ pc = "script"
                /\ last.out = <<Continuing>>

C13_Witness ==
    /\ PromptDone /\ frame.caller = "tryexpect"
    /\ frame.outer.pattern = "foo"
    /\ last.saw.exitstatus = 3
    /\ ctl = [state |-> "exited", code |-> 3]

TryExpectEofDone == last.op = "tryexpect" /\ last.result = "EOF"

\* C14: on EOF from a child that is still alive, tryexpect raises that EOF
\* again, writes no report and does not end the controlling process
C14_EofAliveReraises ==
    (TryExpectEofDone /\ last.saw.alive) =>
        /\ last.raised
        /\ last.exc = "EOF"
        /\ last.acts = <<>>
        /\ last.out = <<>>
        /\ Running

C14_Witness ==
    /\ TryExpectEofDone /\ last.saw.alive
    /\ last.arg.exitwithprogram
    /\ last.exc = "EOF"

\* C15: on EOF from a child that is dead with a signal or an exit status,
\* tryexpect writes the report; with exitwithprogram true the controlling
\* process then exits with the same status (or gets the same signal), with
\* exitwithprogram false the EOF is swallowed and tryexpect returns
C15_EofDeadRelays ==
    (TryExpectEofDone /\ Known(last.saw)) =>
        /\ Relayed(last.saw, last.acts, last.arg.exitwithprogram)
        /\ last.out = SelectSeq(last.acts, IsLine)
        /\ ~last.arg.exitwithprogram =>
               (~last.raised /\ last.exc = "none" /\ pc = "script")

C15_Witness ==
    /\ TryExpectEofDone
    /\ last.saw.exitstatus = 3
    /\ last.arg.exitwithprogram
    /\ last.out # <<>>
    /\ last.out[1] = [line |-> "exited", n |-> 3]
    /\ ctl = [state |-> "exited", code |-> 3]

\* C16: on EOF from a child that is not alive and has neither a signal
\* status nor an exit status, tryexpect raises the EOF again
C16_EofUnknownReraises ==
    (TryExpectEofDone /\ Unknown(last.saw)) =>
        /\ last.raised
        /\ last.exc = "EOF"
        /\ Running

C16_Witness ==
    /\ TryExpectEofDone /\ Unknown(last.saw)
    /\ last.exc = "EOF"
    /\ last.check = "True"

\* C17: when expect matches, tryexpect returns what expect returned; it
\* does not enter prompt, writes no report and leaves echo, the mode stack
\* and the terminal attributes as they were
C17_MatchPassesThrough ==
    (last.op = "tryexpect" /\ last.result = "match") =>
        /\ last.ret = last.calls[1].ret
        /\ ~last.raised
        /\ pc = "script"
        /\ last.out = <<>> /\ last.acts = <<>>
        /\ echo = last.pre.echo
        /\ oldmodes = last.pre.oldmodes
        /\ hasoldmodes = last.pre.hasoldmodes
        /\ term = last.pre.term
        /\ crlf = last.pre.crlf
        /\ Running

C17_Witness ==
    /\ last.op = "tryexpect" /\ last.result = "match"
    /\ last.ret = 1
    /\ Depth = 1

\* C18: when _check_target returns, it returns true exactly when neither
\* the signal status nor the exit status is set
C18_CheckTargetResult ==
    (last.check # "none" /\ Running) =>
        (last.check = "True" <=>
            (last.saw.signalstatus = NoStatus /\ last.saw.exitstatus = NoStatus))

C18_Witness ==
    /\ last.check = "False" /\ Running
    /\ last.saw.exitstatus = 3

\* ------------------------------------------------- setnlcr and setnonlcr
\* Two modes that differ at most in the ONLCR bit of the output flags
SameButONLCR(a, b) ==
    /\ [a EXCEPT !.oflag = 0] = [b EXCEPT !.oflag = 0]
    /\ a.oflag \in {b.oflag, b.oflag + ONLCR, b.oflag - ONLCR}
    /\ a.oflag % ONLCR = b.oflag % ONLCR

\* C19: setnlcr and setnonlcr change nothing in the terminal attributes but
\* the ONLCR bit of the output flags
C19_OnlyONLCR ==
    (last.op \in {"setnlcr", "setnonlcr"}) => SameButONLCR(term, last.pre.term)

C19_Witness ==
    /\ last.op = "setnonlcr"
    /\ term # last.pre.term
    /\ term.oflag = 1

\* C20 as stated: setnlcr followed by setnonlcr leaves the output flags
\* equal to the original ones, and every other group as it was
C20_BackToOriginal ==
    (last.op = "setnonlcr" /\ last.origin.follows) => term = last.origin.term

\* C20: setnlcr followed by setnonlcr leaves the output flags equal to the
\* original ones with the ONLCR bit cleared, and every other group as it was
C20_OriginalLessONLCR ==
    (last.op = "setnonlcr" /\ last.origin.follows) =>
        term = [last.origin.term EXCEPT
                   !.oflag = IF HasONLCR(@) THEN @ - ONLCR ELSE @]

C20_Witness ==
    /\ last.op = "setnonlcr" /\ last.origin.follows
    /\ HasONLCR(last.origin.term.oflag)
    /\ term.oflag = 1

\* ------------------------------------------------- the depth of the stack
Scoped == last.op \in {"setnlcr", "setnonlcr", "changemode"}

PreDepth == IF last.pre.hasoldmodes THEN Len(last.pre.oldmodes) ELSE 0

C22_RestoreWritesBack ==
    (last.op = "restoremode" /\ ~last.raised) =>
        /\ oldmodes = SubSeq(last.pre.oldmodes, 1, Len(last.pre.oldmodes) - 1)
        /\ last.popped = last.pre.oldmodes[Len(last.pre.oldmodes)]
        /\ IF last.popped.none
           THEN last.wrote = <<>> /\ term = last.pre.term
           ELSE last.wrote = <<last.popped.mode>> /\ term = last.popped.mode

\* ------------------------------------------------------- the command line
\* The list that was parsed, and where its first positional word stands
\* (0 when it has none)
ListParsed == IF cli.newargs.given THEN cli.newargs.list ELSE cli.sysargs

FirstPositional(l) ==
    IF \A i \in 1..Len(l) : l[i] \in OptionWords
    THEN 0
    ELSE CHOOSE i \in 1..Len(l) :
             /\ l[i] \notin OptionWords
             /\ \A j \in 1..(i - 1) : l[j] \in OptionWords

\* C23: the parsed command is the first positional word of the list that is
\* parsed (the explicit list when there is one, else the arguments of the
\* process), and the default command of the constructor when that list has
\* no positional word
C23_CommandResolution ==
    (cli.done # "none") =>
        LET l == ListParsed
            i == FirstPositional(l)
        IN  cli.parsed.command = IF i > 0 THEN l[i] ELSE cli.cmd

C23_Witness ==
    /\ cli.done = "parse_args"
    /\ cli.newargs = Given(<<>>)
    /\ cli.sysargs = <<"foo">>
    /\ cli.cmd = "cat"
    /\ cli.parsed.command = "cat"

\* C24: the parsed args are the words that follow the command when there
\* are any; else the default args of the constructor, also when a command
\* was given, and the empty list when there are no default args
C24_ArgsDefaults ==
    (cli.done # "none") =>
        LET l == ListParsed
            i == FirstPositional(l)
        IN  cli.parsed.args = IF i > 0 /\ i < Len(l)
                              THEN SubSeq(l, i + 1, Len(l))
                              ELSE cli.dargs

C24_Witness ==
    /\ cli.done = "parse_args"
    /\ cli.newargs = NoList
    /\ cli.sysargs = <<"foo">>
    /\ cli.dargs = <<"a", "b">>
    /\ cli.parsed.command = "foo"
    /\ cli.parsed.args = <<"a", "b">>

\* C25: target() returns a ttyspawn exactly when --tty or --gdb is chosen
\* and a spawn otherwise; with a pty and a writeback file, the file holds
\* the name of the pty, a NUL, and the arguments of the command joined by
\* NULs; without a pty no file is written
C25_TargetKind ==
    (cli.done = "target") =>
        LET pty == cli.parsed.tty \/ cli.parsed.gdb
        IN  /\ cli.conn = IF pty THEN "ttyspawn" ELSE "spawn"
            /\ cli.pty = pty
            /\ (pty /\ cli.parsed.writeback # "None") =>
                   \E command \in ShlexSplit(cli.parsed.command) :
                       /\ command # <<>>
                       /\ cli.file = <<"ttyname", "NUL">> \o JoinNul(Tail(command))
            /\ ~pty => cli.file = NoFile

\* ------------------------------------------------------------ the hand-off
\* C26 as stated: Scripted at the start; prompt or pwned leads to
\* Interactive; Interactive leads back to Scripted only with the child alive
\* on return from interact(), to Terminated only with the child dead;
\* Terminated is not entered from Scripted; there is no other transition
C26_ThreeStates ==
    [][LET s == HandoffStateOf(pc, frame)
           n == HandoffStateOf(pc', frame')
       IN  \/ n = s
           \/ s = "Scripted" /\ n = "Interactive"
           \/ s = "Interactive" /\ n = "Scripted" /\ child.alive
           \/ s = "Interactive" /\ n = "Terminated" /\ ~child.alive]_vars

\* C26: as stated, but Terminated is not final: when the controlling
\* process is still running there (exitwithprogram false, as always for
\* pwned, or no status to relay), a further prompt or pwned call, or the
\* prompt call of tryexpect, leads from Terminated to Interactive again
C26_ThreeStatesAndBack ==
    [][LET s == HandoffStateOf(pc, frame)
           n == HandoffStateOf(pc', frame')
       IN  \/ n = s
           \/ s = "Scripted" /\ n = "Interactive"
           \/ s = "Terminated" /\ n = "Interactive" /\ Running
                /\ (frame.caller = "pwned" \/ ~frame.exitwithprogram \/ Unknown(child))
           \/ s = "Interactive" /\ n = "Scripted" /\ child.alive
           \/ s = "Interactive" /\ n = "Terminated" /\ ~child.alive]_vars

C26_Witness ==
    /\ pc = "interact"
    /\ frame.came = "Terminated"
    /\ ~child.alive
    /\ Running

\* C27: a tryexpect call with exitwithprogram false leaves the controlling
\* process running: on a match, on EOF from a dead child, and on a timeout
\* whose session sees the child die
C27_FalseNeverEnds ==
    /\ (last.op = "tryexpect" /\ last.result \in {"match", "EOF"}
            /\ ~last.arg.exitwithprogram) => Running
    /\ (PromptDone /\ frame.caller = "tryexpect"
            /\ ~frame.outer.exitwithprogram) => Running

\* C28: when interact() has returned and the child is dead, prompt makes no
\* restoremode and no setecho: on a BinMixin connection the stack is one
\* entry deeper than before the call, and the echo setting is the one the
\* call applied
C28_DeadPathRestoresNothing ==
    (last.op = "prompt-dead") =>
        /\ Depth = frame.entry.depth + (IF binmixin THEN 1 ELSE 0)
        /\ echo = IF frame.echo # "None" THEN EchoValue(frame.echo)
                  ELSE frame.entry.echo
        /\ oldmodes = last.pre.oldmodes
        /\ term = last.pre.term
        /\ last.popped = NoneEntry
        /\ last.wrote = <<>>

C28_Witness ==
    /\ last.op = "prompt-dead" /\ binmixin
    /\ frame.echo = "False" /\ frame.entry.echo /\ ~echo
    /\ frame.entry.depth = 1 /\ Depth = 2

\* C29: interact() runs once in a prompt call, entered with the requested
\* echo value applied and, on a BinMixin connection, setnlcr() called; the
\* isalive() check, the restores and the relay come when it has returned
C29_InteractOrder ==
    /\ (pc = "interact") =>
           /\ echo = IF frame.echo # "None" THEN EchoValue(frame.echo)
                     ELSE frame.entry.echo
           /\ binmixin => (Depth = frame.entry.depth + 1 /\ last.live.oflag
                               = frame.entry.term.oflag
                                   + (IF HasONLCR(frame.entry.term.oflag) THEN 0 ELSE ONLCR))
           /\ frame.found = "pending"
           /\ ~PromptDone
           /\ last.check = "none"
    /\ (frame.found \in {"alive", "dead"}) => pc = "script"
    /\ PromptDone =>
           /\ frame.found = IF last.op = "prompt-dead" THEN "dead" ELSE "alive"
           /\ (last.check # "none") <=> (frame.found = "dead")

C29_Witness ==
    /\ pc = "interact" /\ binmixin
    /\ frame.echo = "False" /\ frame.entry.echo
    /\ frame.entry.depth = 1
    /\ ~HasONLCR(frame.entry.term.oflag)

\* C30: with both a signal status and an exit status set, _check_target
\* reports the signal only and, with exitwithprogram, signals the
\* controlling process; the exit status is reported only when no signal
\* status is set
C30_SignalFirst ==
    (last.op = "_check_target") =>
        LET sig == last.saw.signalstatus
            exitLines == {"exited", "exiting", "exit"}
        IN  /\ (sig # NoStatus) =>
                   /\ last.acts # <<>>
                   /\ last.acts[1] = [line |-> "signal", n |-> sig]
                   /\ \A i \in 1..Len(last.acts) : last.acts[i].line \notin exitLines
                   /\ last.arg.exitwithprogram => ctl = [state |-> "killed", code |-> sig]
                   /\ last.check = "False"
            /\ (\E i \in 1..Len(last.acts) : last.acts[i].line \in exitLines)
                   => sig = NoStatus

C30_Witness ==
    /\ last.op = "_check_target"
    /\ last.saw.signalstatus = 11 /\ last.saw.exitstatus = 3
    /\ last.arg.exitwithprogram
    /\ ctl = [state |-> "killed", code |-> 11]

\* C31: a restoremode call that finds no snapshot to pop (the stack was never
\* created, or is empty) fails, writes neither the terminal attributes nor
\* the line terminator, and leaves the stack as it found it
C31_UnmatchedRestoreFails ==
    (last.op = "restoremode" /\ PreDepth = 0) =>
        /\ last.raised
        /\ last.wrote = <<>>
        /\ term = last.pre.term
        /\ crlf = last.pre.crlf
        /\ oldmodes = last.pre.oldmodes
        /\ hasoldmodes = last.pre.hasoldmodes

\* the stack was emptied by an earlier restore; the terminal is not the one
\* the connection started with, and stays so
C31_Witness ==
    /\ last.op = "restoremode" /\ last.raised
    /\ last.pre.hasoldmodes /\ last.pre.oldmodes = <<>>
    /\ term # base

\* C32: when the connection has no terminal descriptor at the start of a
\* scoped mode change (setnlcr, setnonlcr, the setnonlcr of target()), the
\* call fails, target() returns no connection, the stack holds the entries
\* it held before and no other, and neither the terminal attributes nor the
\* line terminator is written
TcgetattrFails ==
    /\ cli.nofd
    /\ \/ last.op \in {"setnlcr", "setnonlcr"}
       \/ last.op = "target" /\ ~cli.parsed.nlcr

C32_FailedReadPushesNothing ==
    TcgetattrFails =>
        /\ last.raised
        /\ last.op = "target" => cli.raised /\ cli.conn = "none"
        /\ Depth = PreDepth
        /\ \A i \in 1..PreDepth : oldmodes[i] = last.pre.oldmodes[i]
        /\ last.wrote = <<>>
        /\ term = last.pre.term
        /\ crlf = last.pre.crlf

\* the connection was closed with one snapshot on the stack, a single-byte
\* line terminator and the ONLCR bit cleared; setnlcr then fails
C32_Witness ==
    /\ TcgetattrFails /\ last.op = "setnlcr"
    /\ PreDepth = 1 /\ oldmodes = last.pre.oldmodes
    /\ crlf = <<10>> /\ ~HasONLCR(term.oflag)

====
